---- MODULE Spec2Model ----
(***************************************************************************)
(* Model of dec/src/decimal.rs: the arbitrary-precision Decimal<N> value,  *)
(* the Context<Decimal<N>> configuration and status, parsing, and the      *)
(* width cast Context::to_width.                                           *)
(*                                                                         *)
(* A Decimal is the record [digits, exponent, bits, lsu].  bits is the set *)
(* of the flag bits that are set in the flag byte.  lsu is the content of  *)
(* the coefficient array written as the sequence of its decimal digits,    *)
(* most significant first and without leading zeros (the array holds       *)
(* DECDPUN = 3 decimal digits per unit, least significant unit first): the *)
(* coefficient 1200 is <<1, 2, 0, 0>>, held by the units [200, 1, 0, ...]. *)
(*                                                                         *)
(* The routines of libdecnumber that decimal.rs calls through decnumber_sys*)
(* (decNumberRescale, decNumberFromString, decNumberPlus, decContextDefault*)
(* ...) and Context::add_status of context.rs are not part of decimal.rs;  *)
(* they are modelled from the specification of the General Decimal         *)
(* Arithmetic operations they implement.                                   *)
(***************************************************************************)
EXTENDS Integers, Sequences, FiniteSets, TLC

VARIABLES cx, last

vars == <<cx, last>>

(***************************************************************************)
(* Instantiation and bounds                                                *)
(***************************************************************************)

\* Storage capacity (in units) of the target type Decimal<N>.
N == 12

\* Storage capacity (in units) of the source type Decimal<M> of to_width.
M == 13

\* Exponents of the numbers fed to to_width range over -MaxExp..MaxExp.
MaxExp == 3

\* The target contexts of to_width have precisions 1..MaxSet, maximum
\* exponents 0..MaxSet and minimum exponents -MaxSet..0 (besides the defaults).
MaxSet == 2

(***************************************************************************)
(* Program constants                                                       *)
(***************************************************************************)

\* decnumber_sys::DECDPUN, decimal digits per unit.
DECDPUN == 3

\* Largest maximum exponent a context accepts.
DEC_MAX_EMAX == 999999999

\* Smallest minimum exponent a context accepts.
DEC_MIN_EMIN == -999999999

\* Smallest and largest legal storage capacity.
MIN_N == 12

MAX_N == 999999999

DECNEG == "DECNEG"

DECINF == "DECINF"

DECNAN == "DECNAN"

DECSNAN == "DECSNAN"

DECSPECIAL == {DECINF, DECNAN, DECSNAN}

(***************************************************************************)
(* Arithmetic helpers                                                      *)
(***************************************************************************)

Abs(x) == IF x < 0 THEN -x ELSE x

Min(a, b) == IF a < b THEN a ELSE b

\* Number of decimal digits of the coefficient c (1 for zero).
RECURSIVE NumDigits(_)
NumDigits(c) == IF c < 10 THEN 1 ELSE 1 + NumDigits(c \div 10)

\* The decimal digits of the natural number c, most significant first.
RECURSIVE DigitsOf(_)
DigitsOf(c) == IF c < 10 THEN <<c>> ELSE Append(DigitsOf(c \div 10), c % 10)

\* The natural number a digit sequence writes.
RECURSIVE ValueOf(_)
ValueOf(s) ==
    IF s = <<>> THEN 0
    ELSE 10 * ValueOf(SubSeq(s, 1, Len(s) - 1)) + s[Len(s)]

Zeros(k) == [i \in 1..k |-> 0]

AllZero(s) == \A i \in 1..Len(s) : s[i] = 0

\* A digit sequence without its leading zeros (<<0>> for zero).
RECURSIVE StripZeros(_)
StripZeros(s) ==
    IF Len(s) <= 1 THEN (IF s = <<>> THEN <<0>> ELSE s)
    ELSE IF s[1] = 0 THEN StripZeros(Tail(s)) ELSE s

\* The digit sequence plus one, with the carry propagated.
RECURSIVE Increment(_)
Increment(s) ==
    IF s = <<>> THEN <<1>>
    ELSE IF s[Len(s)] < 9 THEN [s EXCEPT ![Len(s)] = s[Len(s)] + 1]
    ELSE Append(Increment(SubSeq(s, 1, Len(s) - 1)), 0)

\* The digits held by the k least significant units of a coefficient array.
LowUnits(lsu, k) ==
    IF Len(lsu) <= DECDPUN * k THEN lsu
    ELSE StripZeros(SubSeq(lsu, Len(lsu) - DECDPUN * k + 1, Len(lsu)))

\* The least significant unit lsu[0] of a coefficient array.
Unit0(lsu) == ValueOf(LowUnits(lsu, 1))

\* Rounding half up of the digit sequence s with its last k digits
\* discarded: [lsu, inexact], lsu the rounded sequence.
RoundHalfUp(s, k) ==
    IF k > Len(s) THEN [lsu |-> <<0>>, inexact |-> ~AllZero(s)]
    ELSE LET kept == SubSeq(s, 1, Len(s) - k)
             dropped == SubSeq(s, Len(s) - k + 1, Len(s))
         IN [lsu |-> IF k > 0 /\ dropped[1] >= 5 THEN Increment(kept)
                     ELSE IF kept = <<>> THEN <<0>> ELSE kept,
             inexact |-> ~AllZero(dropped)]

(***************************************************************************)
(* Decimal<N>                                                              *)
(***************************************************************************)

\* validate_n: TRUE when the capacity is legal (the code panics otherwise).
validate_n(n) == ~(n < MIN_N \/ n > MAX_N)

\* Default for Decimal<N>: decNumberZero.
Decimal_default == [digits |-> 1, exponent |-> 0, bits |-> {}, lsu |-> <<0>>]

infinity == [Decimal_default EXCEPT !.bits = {DECINF}]

nan == [Decimal_default EXCEPT !.bits = {DECNAN}]

zero == Decimal_default

is_finite(d) == (d.bits \cap DECSPECIAL) = {}

is_infinite(d) == (d.bits \cap {DECINF}) # {}

is_nan(d) == (d.bits \cap {DECNAN, DECSNAN}) # {}

is_negative(d) == (d.bits \cap {DECNEG}) # {}

is_quiet_nan(d) == (d.bits \cap {DECNAN}) # {}

is_signaling_nan(d) == (d.bits \cap {DECSNAN}) # {}

is_special(d) == (d.bits \cap DECSPECIAL) # {}

is_zero(d) == is_finite(d) /\ Unit0(d.lsu) = 0 /\ d.digits = 1

\* Decimal::precision with its third branch returning the exponent: the
\* mutation of precision used to test the claims that read it.
precision_splice_as_padding(d) ==
    IF d.exponent >= 0 THEN d.digits + Abs(d.exponent)
    ELSE Abs(d.exponent)

\* Decimal::precision.
precision(d) ==
    IF d.exponent >= 0 THEN d.digits + Abs(d.exponent)
    ELSE IF Abs(d.exponent) > d.digits THEN Abs(d.exponent)
    ELSE d.digits

\* From<i32> for Decimal<N>: decNumberFromInt32.
From_i32(n) ==
    [digits |-> NumDigits(Abs(n)), exponent |-> 0,
     bits |-> IF n < 0 THEN {DECNEG} ELSE {}, lsu |-> DigitsOf(Abs(n))]

\* Neg / Context::neg: decNumberCopyNegate inverts the sign bit only.
neg(d) ==
    [d EXCEPT !.bits = IF DECNEG \in d.bits THEN d.bits \ {DECNEG}
                       ELSE d.bits \cup {DECNEG}]

(***************************************************************************)
(* Context<Decimal<N>>                                                     *)
(***************************************************************************)

\* Status flags a context accumulates.
Flags ==
    {"conversion_syntax", "division_by_zero", "inexact", "invalid_operation",
     "overflow", "clamped", "rounded", "subnormal", "underflow"}

\* Context::add_status: the flags are or-ed into the accumulated status.
add_status(status, s) == status \cup s

\* Default for Context<Decimal<N>>: decContextDefault(DEC_INIT_BASE) with the
\* traps cleared and the precision set to the capacity of the number.
Context_default(n) ==
    [digits |-> n * DECDPUN, emax |-> DEC_MAX_EMAX, emin |-> DEC_MIN_EMIN,
     clamp |-> FALSE, status |-> {}]

\* Context::precision, max_exponent, min_exponent, clamp.
cx_precision(c) == c.digits

max_exponent(c) == c.emax

min_exponent(c) == c.emin

clamp(c) == c.clamp

(***************************************************************************)
(* decNumberRescale (libdecnumber), rounding half up as the default        *)
(* context does.  The result is [num, status]: the number and the flags    *)
(* the call raises.                                                        *)
(***************************************************************************)

\* decGetInt of an integer-valued number with exponent 0.
decGetInt(d) == IF is_negative(d) THEN -ValueOf(d.lsu) ELSE ValueOf(d.lsu)

\* The tail of the rescale: a result whose digits do not fit under emax is an
\* invalid operation; otherwise the subnormal flag is set as decFinalize does.
RescaleFinish(set, res, st) ==
    IF res.exponent > set.emax - res.digits + 1
    THEN [num |-> nan, status |-> {"invalid_operation"}]
    ELSE [num |-> res,
          status |-> IF ~AllZero(res.lsu)
                        /\ res.exponent + res.digits - 1 < set.emin
                     THEN st \cup {"subnormal"} ELSE st]

decNumberRescale(set, lhs, rhs) ==
    LET reqdigits == set.digits
        etiny == set.emin - (reqdigits - 1)
        reqexp == decGetInt(rhs)
        invalid == [num |-> nan, status |-> {"invalid_operation"}]
    IN
    IF is_nan(lhs)
    THEN \* a NaN propagates; a signaling NaN is quieted and is invalid
         [num |-> [lhs EXCEPT !.bits = (lhs.bits \ {DECSNAN}) \cup {DECNAN},
                              !.exponent = 0],
          status |-> IF is_signaling_nan(lhs) THEN {"invalid_operation"} ELSE {}]
    ELSE IF is_infinite(lhs) THEN invalid
    ELSE IF reqexp < etiny \/ reqexp > set.emax THEN invalid
    ELSE IF AllZero(lhs.lsu)
    THEN \* a zero coefficient is unchanged: only the exponent is set
         RescaleFinish(set, [lhs EXCEPT !.exponent = reqexp], {})
    ELSE
      LET adjust == reqexp - lhs.exponent IN
      IF lhs.digits - adjust > reqdigits THEN invalid
      ELSE IF adjust > 0
      THEN \* the exponent increases: adjust digits are rounded away
        LET wdigits == lhs.digits - adjust
            rd == RoundHalfUp(lhs.lsu, adjust)
            carried == wdigits >= 1 /\ Len(rd.lsu) > wdigits
            st == {"rounded"} \cup (IF rd.inexact THEN {"inexact"} ELSE {})
        IN
        \* a carry out of the top digit adds a digit, which must fit
        IF carried /\ wdigits = reqdigits THEN invalid
        ELSE RescaleFinish(set,
                 [lhs EXCEPT !.lsu = rd.lsu, !.digits = Len(rd.lsu),
                             !.exponent = reqexp], st)
      ELSE \* the exponent decreases: -adjust zeros are appended
        RescaleFinish(set,
            [lhs EXCEPT !.lsu = lhs.lsu \o Zeros(-adjust),
                        !.digits = lhs.digits - adjust,
                        !.exponent = reqexp], {})

\* Context::rescale: decNumberRescale on the context, which accumulates the
\* status.  The result is [num, cx].
rescale(c, lhs, rhs) ==
    LET r == decNumberRescale(c, lhs, rhs) IN
    [num |-> r.num, cx |-> [c EXCEPT !.status = add_status(c.status, r.status)]]

(***************************************************************************)
(* Rounding to the context and text conversion (libdecnumber)              *)
(***************************************************************************)

\* decFinish: the finite number d rounded half up to the precision of the
\* context and checked against its exponent bounds.  A number below the
\* normal range becomes subnormal (rounded at Etiny), one above it
\* overflows to infinity, and with clamping the exponent is folded down.
\* The result is [num, status].
decFinish(set, d) ==
    LET prec == set.digits
        etiny == set.emin - (prec - 1)
        etop == set.emax - (prec - 1)
    IN
    IF AllZero(d.lsu)
    THEN LET e == IF d.exponent < etiny THEN etiny
                  ELSE IF set.clamp /\ d.exponent > etop THEN etop
                  ELSE IF d.exponent > set.emax THEN set.emax
                  ELSE d.exponent
         IN [num |-> [d EXCEPT !.exponent = e],
             status |-> IF e # d.exponent THEN {"clamped"} ELSE {}]
    ELSE IF d.exponent + d.digits - 1 < set.emin
    THEN LET disc == etiny - d.exponent
             rd == RoundHalfUp(d.lsu, disc)
         IN IF disc <= 0 THEN [num |-> d, status |-> {"subnormal"}]
            ELSE [num |-> [d EXCEPT !.lsu = rd.lsu, !.digits = Len(rd.lsu),
                                    !.exponent = etiny],
                  status |-> {"subnormal", "rounded"}
                      \cup (IF rd.inexact THEN {"inexact", "underflow"} ELSE {})
                      \cup (IF AllZero(rd.lsu) THEN {"clamped"} ELSE {})]
    ELSE
      LET disc == IF d.digits > prec THEN d.digits - prec ELSE 0
          rd == RoundHalfUp(d.lsu, disc)
          carried == Len(rd.lsu) > prec
          lsu1 == IF carried THEN SubSeq(rd.lsu, 1, prec) ELSE rd.lsu
          e1 == d.exponent + disc + (IF carried THEN 1 ELSE 0)
          st1 == IF disc = 0 THEN {}
                 ELSE {"rounded"} \cup (IF rd.inexact THEN {"inexact"} ELSE {})
      IN
      IF e1 > set.emax - Len(lsu1) + 1
      THEN [num |-> [infinity EXCEPT !.bits = {DECINF} \cup (d.bits \cap {DECNEG})],
            status |-> st1 \cup {"overflow", "inexact", "rounded"}]
      ELSE IF set.clamp /\ e1 > etop
      THEN [num |-> [d EXCEPT !.lsu = lsu1 \o Zeros(e1 - etop),
                              !.digits = Len(lsu1) + (e1 - etop),
                              !.exponent = etop],
            status |-> st1 \cup {"clamped"}]
      ELSE [num |-> [d EXCEPT !.lsu = lsu1, !.digits = Len(lsu1),
                              !.exponent = e1],
            status |-> st1]

\* The characters of the texts: decimal digits, signs, the decimal point, the
\* exponent indicator, the words Inf, NaN and sNaN, a letter that belongs to
\* no number, and the NUL byte.
DigitChars == {"0", "1", "5", "9"}

DigitVal(ch) == CASE ch = "0" -> 0 [] ch = "1" -> 1 [] ch = "5" -> 5 [] ch = "9" -> 9

AllDigits(s) == \A i \in 1..Len(s) : s[i] \in DigitChars

DigitVals(s) == [i \in 1..Len(s) |-> DigitVal(s[i])]

\* Index of the first occurrence of ch in s, 0 when there is none.
FirstIndex(s, ch) ==
    IF \E i \in 1..Len(s) : s[i] = ch
    THEN CHOOSE i \in 1..Len(s) : s[i] = ch /\ \A j \in 1..(i - 1) : s[j] # ch
    ELSE 0

\* The lexical analysis of a numeric string: [sign] decimal-part
\* [exponent-part], or [sign] Inf, or [sign] NaN/sNaN [digits].  The result
\* is [ok, neg, kind, digs, exponent].
NumericString(s) ==
    LET signed == Len(s) >= 1 /\ s[1] \in {"-", "+"}
        isneg == signed /\ s[1] = "-"
        body == IF signed THEN Tail(s) ELSE s
        special == Len(body) >= 1 /\ body[1] \in {"Inf", "NaN", "sNaN"}
        epos == FirstIndex(body, "E")
        mant == IF epos = 0 THEN body ELSE SubSeq(body, 1, epos - 1)
        expt == IF epos = 0 THEN <<>> ELSE SubSeq(body, epos + 1, Len(body))
        esigned == Len(expt) >= 1 /\ expt[1] \in {"-", "+"}
        edigs == IF esigned THEN Tail(expt) ELSE expt
        dpos == FirstIndex(mant, ".")
        ipart == IF dpos = 0 THEN mant ELSE SubSeq(mant, 1, dpos - 1)
        fpart == IF dpos = 0 THEN <<>> ELSE SubSeq(mant, dpos + 1, Len(mant))
        expo == IF epos = 0 THEN 0
                ELSE IF esigned /\ expt[1] = "-" THEN -ValueOf(DigitVals(edigs))
                ELSE ValueOf(DigitVals(edigs))
    IN
    IF special
    THEN [ok |-> (body[1] = "Inf" /\ Len(body) = 1)
                 \/ (body[1] # "Inf" /\ AllDigits(Tail(body))),
          neg |-> isneg, kind |-> body[1],
          digs |-> IF AllDigits(Tail(body)) THEN StripZeros(DigitVals(Tail(body)))
                   ELSE <<0>>,
          exponent |-> 0]
    ELSE IF AllDigits(ipart) /\ AllDigits(fpart) /\ Len(ipart) + Len(fpart) >= 1
            /\ (epos = 0 \/ (Len(edigs) >= 1 /\ AllDigits(edigs)))
    THEN [ok |-> TRUE, neg |-> isneg, kind |-> "finite",
          digs |-> StripZeros(DigitVals(ipart \o fpart)),
          exponent |-> expo - Len(fpart)]
    ELSE [ok |-> FALSE, neg |-> isneg, kind |-> "finite", digs |-> <<0>>,
          exponent |-> 0]

\* Whether a text is a numeric string.
WellFormed(s) == NumericString(s).ok

\* decNumberFromString: the number a text denotes, rounded to the context;
\* a text that is no numeric string gives a NaN and conversion_syntax, and so
\* does a NaN whose payload does not fit the precision.
\* The result is [num, status].
decNumberFromString(set, s) ==
    LET t == NumericString(s)
        sign == IF t.neg THEN {DECNEG} ELSE {}
        bad == [num |-> nan, status |-> {"conversion_syntax"}]
    IN
    IF ~t.ok THEN bad
    ELSE IF t.kind = "Inf"
    THEN [num |-> [infinity EXCEPT !.bits = {DECINF} \cup sign], status |-> {}]
    ELSE IF t.kind \in {"NaN", "sNaN"}
    THEN IF ~AllZero(t.digs)
            /\ (Len(t.digs) > set.digits
                \/ (set.clamp /\ Len(t.digs) > set.digits - 1))
         THEN bad
         ELSE [num |-> [digits |-> Len(t.digs), exponent |-> 0,
                        bits |-> sign \cup {IF t.kind = "NaN" THEN DECNAN ELSE DECSNAN},
                        lsu |-> t.digs],
               status |-> {}]
    ELSE decFinish(set, [digits |-> Len(t.digs), exponent |-> t.exponent,
                         bits |-> sign, lsu |-> t.digs])

\* decNumberPlus: 0 + n under the context.  A NaN propagates (a signaling
\* NaN is quieted and is invalid), an infinity is unchanged, a zero loses
\* its sign, and a finite number is rounded to the context.
decNumberPlus(set, n) ==
    IF is_nan(n)
    THEN [num |-> [n EXCEPT !.bits = (n.bits \ {DECSNAN}) \cup {DECNAN}],
          status |-> IF is_signaling_nan(n) THEN {"invalid_operation"} ELSE {}]
    ELSE IF is_infinite(n) THEN [num |-> n, status |-> {}]
    ELSE IF AllZero(n.lsu) THEN decFinish(set, [n EXCEPT !.bits = {}])
    ELSE decFinish(set, n)

(***************************************************************************)
(* Context::parse and Context::plus                                        *)
(***************************************************************************)

\* parse testing the flags the call itself raised instead of the
\* accumulated status.
parse_tests_own_flags(c, s) ==
    IF \E i \in 1..Len(s) : s[i] = "NUL"
    THEN [outcome |-> "err", num |-> Decimal_default, cx |-> c]
    ELSE LET r == decNumberFromString(c, s)
             c1 == [c EXCEPT !.status = add_status(c.status, r.status)]
         IN [outcome |-> IF "conversion_syntax" \in r.status THEN "err" ELSE "ok",
             num |-> r.num, cx |-> c1]

\* Context::parse.  The result is [outcome, num, cx]: outcome "ok" with the
\* number, "err" for ParseDecimalError, "panic" when N is not a legal
\* capacity.  A text with a NUL byte fails in CString::new before the
\* context is touched.
parse(c, s) ==
    IF ~validate_n(N)
    THEN [outcome |-> "panic", num |-> Decimal_default, cx |-> c]
    ELSE IF \E i \in 1..Len(s) : s[i] = "NUL"
    THEN [outcome |-> "err", num |-> Decimal_default, cx |-> c]
    ELSE LET r == decNumberFromString(c, s)
             c1 == [c EXCEPT !.status = add_status(c.status, r.status)]
         IN [outcome |-> IF "conversion_syntax" \in c1.status THEN "err" ELSE "ok",
             num |-> r.num, cx |-> c1]

\* Context::plus.  The result is [num, cx].
plus(c, n) ==
    LET r == decNumberPlus(c, n) IN
    [num |-> r.num, cx |-> [c EXCEPT !.status = add_status(c.status, r.status)]]

(***************************************************************************)
(* Context::to_width                                                       *)
(***************************************************************************)

\* The overflow branch with the status assigned instead of added.
overflow_status_assigned(status) ==
    {"inexact", "overflow", "rounded"}

\* The status after the overflow branch.
overflow_status(status) ==
    add_status(status, {"inexact", "overflow", "rounded"})

\* The status after the underflow branch.
underflow_status(status) ==
    add_status(status, {"inexact", "rounded", "subnormal", "underflow"})

\* The status after the precision branch.
precision_status(status) ==
    add_status(status, {"inexact", "rounded"})

\* The copy of m into a fresh Decimal<N>: the first min(N, M) units, the
\* flag byte, the digit count and the exponent.
copy_to_width(m) ==
    LET lsu_min_len == Min(N, M) IN
    [digits |-> m.digits, exponent |-> m.exponent, bits |-> m.bits,
     lsu |-> LowUnits(m.lsu, lsu_min_len)]

\* to_width of m under context c.  The result is
\* [outcome, n, status, m_precision]: outcome is "ok" or "panic" (the
\* assertion of the underflow branch failed), n the returned number, status
\* the context status after the call.
to_width(c, m) ==
    LET m_precision == precision(m) IN
    IF m.exponent >= 0 /\ m_precision > max_exponent(c)
    THEN [outcome |-> "ok",
          n |-> IF is_negative(m) THEN neg(infinity) ELSE infinity,
          status |-> overflow_status(c.status),
          m_precision |-> m_precision]
    ELSE
      LET under == m.exponent < 0 /\ m_precision > Abs(min_exponent(c))
          r1 == rescale(Context_default(M), m, From_i32(min_exponent(c)))
          m1 == IF under THEN r1.num ELSE m
          st1 == IF under THEN underflow_status(c.status) ELSE c.status
      IN
      IF under /\ "inexact" \notin r1.cx.status
      THEN [outcome |-> "panic", n |-> Decimal_default, status |-> c.status,
            m_precision |-> m_precision]
      ELSE
        LET over == m1.digits > cx_precision(c)
            precision_diff == m1.digits - cx_precision(c)
            f == From_i32(m1.exponent + precision_diff)
            r2 == rescale(Context_default(M), m1, f)
            m2 == IF over THEN r2.num ELSE m1
            st2 == IF over THEN precision_status(st1) ELSE st1
        IN [outcome |-> "ok", n |-> copy_to_width(m2), status |-> st2,
            m_precision |-> m_precision]

(***************************************************************************)
(* Context setters                                                         *)
(***************************************************************************)

\* i32::MAX, the limit of the i32::try_from conversions of the setters.
I32_MAX == 2147483647

\* set_precision without the upper limit on the precision.
set_precision_unchecked_high(c, p) ==
    IF p < 1 THEN [ok |-> FALSE, cx |-> c]
    ELSE [ok |-> TRUE, cx |-> [c EXCEPT !.digits = p]]

\* Context::set_precision.  The result is [ok, cx].
set_precision(c, p) ==
    IF p < 1 \/ p > N * DECDPUN THEN [ok |-> FALSE, cx |-> c]
    ELSE IF p > I32_MAX THEN [ok |-> FALSE, cx |-> c]
    ELSE [ok |-> TRUE, cx |-> [c EXCEPT !.digits = p]]

\* Context::set_clamp.
set_clamp(c, b) == [c EXCEPT !.clamp = b]

\* set_max_exponent without the check against negative exponents.
set_max_exponent_accepts_negative(c, e) ==
    IF e > 999999999 THEN [ok |-> FALSE, cx |-> c]
    ELSE [ok |-> TRUE, cx |-> [c EXCEPT !.emax = e]]

\* Context::set_max_exponent.  The result is [ok, cx].
set_max_exponent(c, e) ==
    IF e < 0 \/ e > 999999999 THEN [ok |-> FALSE, cx |-> c]
    ELSE IF e > I32_MAX THEN [ok |-> FALSE, cx |-> c]
    ELSE [ok |-> TRUE, cx |-> [c EXCEPT !.emax = e]]

\* set_min_exponent storing the exponent before it validates it.
set_min_exponent_stores_first(c, e) ==
    IF e > 0 \/ e < -999999999 THEN [ok |-> FALSE, cx |-> [c EXCEPT !.emin = e]]
    ELSE [ok |-> TRUE, cx |-> [c EXCEPT !.emin = e]]

\* Context::set_min_exponent.  The result is [ok, cx].
set_min_exponent(c, e) ==
    IF e > 0 \/ e < -999999999 THEN [ok |-> FALSE, cx |-> c]
    ELSE IF e < -I32_MAX - 1 THEN [ok |-> FALSE, cx |-> c]
    ELSE [ok |-> TRUE, cx |-> [c EXCEPT !.emin = e]]

(***************************************************************************)
(* Inputs                                                                  *)
(***************************************************************************)

\* Coefficients of the finite inputs: zero, single digits, round numbers and
\* numbers that round with a carry out of the top digit.
Coefs == {0, 1, 5, 10, 45, 99, 100, 123, 995, 999}

Signs == {{}, {DECNEG}}

\* A valid finite number: the digit count is that of the coefficient.
Finite(sign, coef, e) ==
    [digits |-> NumDigits(coef), exponent |-> e, bits |-> sign,
     lsu |-> DigitsOf(coef)]

FiniteInputs ==
    {Finite(s, c, e) : s \in Signs, c \in Coefs, e \in (-MaxExp)..MaxExp}

\* Infinities and NaNs (quiet and signaling, with and without a payload).
SpecialInputs ==
    {[digits |-> 1, exponent |-> 0, bits |-> s \cup {k}, lsu |-> <<0>>] :
        s \in Signs, k \in {DECINF, DECNAN, DECSNAN}}
    \cup {[digits |-> 3, exponent |-> 0, bits |-> s \cup {k}, lsu |-> <<1, 2, 3>>] :
        s \in Signs, k \in {DECNAN, DECSNAN}}

CastInputs == FiniteInputs \cup SpecialInputs

\* The record of the last call: the operation, its outcome ("ok", "err" or
\* "panic"), its arguments (arg, m, text), the number it returned and, for
\* to_width, the value of m.precision() it computed.
NoCall ==
    [op |-> "none", outcome |-> "ok", arg |-> 0, m |-> Decimal_default,
     text |-> <<>>, res |-> Decimal_default, m_precision |-> 0]

(***************************************************************************)
(* Actions                                                                 *)
(***************************************************************************)

SetPrecision(p) ==
    LET r == set_precision(cx, p) IN
    /\ cx' = r.cx
    /\ last' = [NoCall EXCEPT !.op = "set_precision", !.arg = p,
                              !.outcome = IF r.ok THEN "ok" ELSE "err"]

SetMaxExponent(e) ==
    LET r == set_max_exponent(cx, e) IN
    /\ cx' = r.cx
    /\ last' = [NoCall EXCEPT !.op = "set_max_exponent", !.arg = e,
                              !.outcome = IF r.ok THEN "ok" ELSE "err"]

SetMinExponent(e) ==
    LET r == set_min_exponent(cx, e) IN
    /\ cx' = r.cx
    /\ last' = [NoCall EXCEPT !.op = "set_min_exponent", !.arg = e,
                              !.outcome = IF r.ok THEN "ok" ELSE "err"]

SetClamp(b) ==
    /\ cx' = set_clamp(cx, b)
    /\ last' = [NoCall EXCEPT !.op = "set_clamp", !.arg = IF b THEN 1 ELSE 0]

ToWidth(m) ==
    LET r == to_width(cx, m) IN
    /\ cx' = [cx EXCEPT !.status = r.status]
    /\ last' = [NoCall EXCEPT !.op = "to_width", !.outcome = r.outcome,
                              !.m = m, !.res = r.n,
                              !.m_precision = r.m_precision]

Parse(s) ==
    LET r == parse(cx, s) IN
    /\ cx' = r.cx
    /\ last' = [NoCall EXCEPT !.op = "parse", !.outcome = r.outcome,
                              !.text = s, !.res = r.num]

Plus(n) ==
    LET r == plus(cx, n) IN
    /\ cx' = r.cx
    /\ last' = [NoCall EXCEPT !.op = "plus", !.m = n, !.res = r.num]

(***************************************************************************)
(* Spec: a context from Context::default() on, under any sequence of       *)
(* setter, parse, plus and to_width calls.                                 *)
(***************************************************************************)

\* Arguments of the setters: the legal values and the first illegal value on
\* each side.
PrecisionArgs == {0, 1, N * DECDPUN, N * DECDPUN + 1}

MaxExponentArgs == {-1, 0, DEC_MAX_EMAX, DEC_MAX_EMAX + 1}

MinExponentArgs == {1, 0, DEC_MIN_EMIN, DEC_MIN_EMIN - 1}

\* Texts given to parse: numeric strings and malformed texts.
Texts ==
    {<<"1">>, <<"-", "9", "5">>, <<"0", ".", "5">>, <<"1", "E", "1">>,
     <<"-", "Inf">>, <<>>, <<"1", "x">>, <<"1", "E">>, <<"1", "NUL", "1">>}

\* Numbers given to to_width and plus.
SpecInputs ==
    {Finite({}, 1, 0), Finite({DECNEG}, 99, 1), Finite({}, 995, -1),
     Finite({DECNEG}, 0, -3), [nan EXCEPT !.bits = {DECSNAN}]}

Init == cx = Context_default(N) /\ last = NoCall

Next ==
    \/ \E p \in PrecisionArgs : SetPrecision(p)
    \/ \E e \in MaxExponentArgs : SetMaxExponent(e)
    \/ \E e \in MinExponentArgs : SetMinExponent(e)
    \/ \E b \in BOOLEAN : SetClamp(b)
    \/ \E s \in Texts : Parse(s)
    \/ \E n \in SpecInputs : Plus(n)
    \/ \E m \in SpecInputs : ToWidth(m)

Spec == Init /\ [][Next]_vars

(***************************************************************************)
(* SpecCast: one to_width call on every input, from every context the      *)
(* setters can configure.                                                  *)
(***************************************************************************)

CastContexts ==
    {[digits |-> p, emax |-> ea, emin |-> ei, clamp |-> FALSE, status |-> st] :
        p \in (1..MaxSet) \cup {N * DECDPUN},
        ea \in (0..MaxSet) \cup {DEC_MAX_EMAX},
        ei \in ((-MaxSet)..0) \cup {DEC_MIN_EMIN},
        st \in {{}, {"conversion_syntax"}}}

InitCast == cx \in CastContexts /\ last = NoCall

CastCall == last.op = "none" /\ \E m \in CastInputs : ToWidth(m)

NextCast == CastCall

SpecCast == InitCast /\ [][NextCast]_vars

(***************************************************************************)
(* Properties                                                              *)
(***************************************************************************)

Max(a, b) == IF a > b THEN a ELSE b

\* The adjusted exponent of a number: the exponent of its leading digit.
Adjusted(d) == d.exponent + d.digits - 1

IsToWidth == last.op = "to_width"

\* C1: whenever to_width returns for a finite m whose adjusted exponent
\* exceeds the max_exponent of the target context, the result is an infinity
\* with the sign of m and the status has overflow, inexact and rounded.
C1_OverflowGivesInfinity ==
    (IsToWidth /\ last.outcome = "ok" /\ is_finite(last.m)
        /\ Adjusted(last.m) > max_exponent(cx))
    => /\ is_infinite(last.res)
       /\ is_negative(last.res) = is_negative(last.m)
       /\ {"overflow", "inexact", "rounded"} \subseteq cx.status

\* C2: for every finite m whose adjusted exponent is below the min_exponent
\* of the target context, to_width returns a number whose exponent is
\* min_exponent, and the status has inexact, rounded, subnormal and underflow.
C2_UnderflowRescales ==
    (IsToWidth /\ is_finite(last.m) /\ Adjusted(last.m) < min_exponent(cx))
    => /\ last.outcome = "ok"
       /\ last.res.exponent = min_exponent(cx)
       /\ {"inexact", "rounded", "subnormal", "underflow"} \subseteq cx.status

\* C3: whenever to_width returns for an m with more digits than the precision
\* of the target context, the status has inexact and rounded and the result
\* has no more digits than that precision.
C3_ResultFitsPrecision ==
    (IsToWidth /\ last.outcome = "ok" /\ last.m.digits > cx_precision(cx))
    => /\ {"inexact", "rounded"} \subseteq cx.status
       /\ last.res.digits <= cx_precision(cx)

\* C4: to_width never panics: the rescale of its underflow branch is always
\* inexact, so the assertion after it holds.
C4_ToWidthNeverPanics == IsToWidth => last.outcome # "panic"

\* C5: a status flag that is set stays set: every call leaves the status a
\* superset of what it was.
C5_StatusOnlyGrows == [][cx.status \subseteq cx'.status]_vars

\* Flags of a failed parse and of a to_width overflow accumulated in one
\* context.
C5_Witness ==
    /\ IsToWidth
    /\ {"conversion_syntax", "overflow"} \subseteq cx.status

\* C6: parse returns Err exactly when the text of that call is malformed,
\* also on a context an earlier parse failed on.
C6_ParseErrIffMalformed ==
    last.op = "parse" => (last.outcome = "err" <=> ~WellFormed(last.text))

C8_SetExponents ==
    /\ last.op = "set_max_exponent"
       => /\ last.outcome = "err" <=> (last.arg < 0 \/ last.arg > 999999999)
          /\ last.outcome = "ok" => max_exponent(cx) = last.arg
    /\ last.op = "set_min_exponent"
       => /\ last.outcome = "err" <=> (last.arg > 0 \/ last.arg < -999999999)
          /\ last.outcome = "ok" => min_exponent(cx) = last.arg

\* set_min_exponent(0) succeeds after set_max_exponent(0) did.
C8_Witness ==
    /\ last.op = "set_min_exponent" /\ last.outcome = "ok" /\ last.arg = 0
    /\ max_exponent(cx) = 0 /\ min_exponent(cx) = 0

Setters == {"set_precision", "set_max_exponent", "set_min_exponent", "set_clamp"}

ConfigInRange ==
    /\ 1 <= cx.digits /\ cx.digits <= 3 * N
    /\ 0 <= cx.emax /\ cx.emax <= 999999999
    /\ -999999999 <= cx.emin /\ cx.emin <= 0

\* C9: the default context has precision 3N; in every state the precision is
\* in [1, 3N], max_exponent in [0, 999999999] and min_exponent in
\* [-999999999, 0]; a setter that fails leaves the context as it was.
C9_ConfigInvariant ==
    /\ cx.digits = 3 * N
    /\ []ConfigInRange
    /\ [][(last'.op \in Setters /\ last'.outcome = "err") => cx' = cx]_vars

\* A setter fails on a context every field of which was changed before.
C9_Witness ==
    /\ last.op = "set_max_exponent" /\ last.outcome = "err"
    /\ cx.digits = 1 /\ cx.emax = 0 /\ cx.emin = 0 /\ cx.clamp

\* The decimal positions (powers of ten) written when the number is put in
\* positional notation without leading zeros: those of the digits of the
\* coefficient, the zeros from the coefficient down to the units when the
\* exponent is positive, and the zeros between the decimal point and the
\* coefficient when all of it lies behind the point.
PositionsWritten(d) ==
    {k \in Min(d.exponent, -1)..Max(Adjusted(d), 0) :
        \/ d.exponent <= k /\ k <= Adjusted(d)
        \/ 0 <= k /\ k < d.exponent
        \/ Adjusted(d) < k /\ k < 0}

\* C10: for a finite number, precision() is the number of digits its
\* positional notation needs, the zero padding the exponent implies included.
C10_PrecisionCountsPositions ==
    (IsToWidth /\ is_finite(last.m))
    => last.m_precision = Cardinality(PositionsWritten(last.m))

\* precision() computed for a number that lies wholly behind the decimal
\* point with zeros before its digits (0.005).
C10_Witness ==
    /\ IsToWidth /\ is_finite(last.m)
    /\ last.m.exponent = -3 /\ last.m.digits = 1 /\ last.m_precision = 3

(***************************************************************************)
(* Comparison (libdecnumber decCompareOp) and the methods built on it      *)
(***************************************************************************)

\* decUnitCompare of two coefficients written without leading zeros: -1, 0
\* or 1 as the first is smaller than, equal to or larger than the second.
decUnitCompare(x, y) ==
    IF Len(x) # Len(y) THEN (IF Len(x) > Len(y) THEN 1 ELSE -1)
    ELSE LET diff == {i \in 1..Len(x) : x[i] # y[i]} IN
         IF diff = {} THEN 0
         ELSE LET i == CHOOSE k \in diff : \A j \in diff : k <= j
              IN IF x[i] > y[i] THEN 1 ELSE -1

\* ISZERO of decNumberLocal.h.
ISZERO(d) == Unit0(d.lsu) = 0 /\ d.digits = 1 /\ ~is_special(d)

\* decCompare: the signum of lhs - rhs for two numbers that are not NaNs;
\* with abs the signs are ignored.
decCompare(lhs, rhs, abs) ==
    LET result == IF ISZERO(lhs) THEN 0
                  ELSE IF ~abs /\ is_negative(lhs) THEN -1 ELSE 1
        sigr == IF ISZERO(rhs) THEN 0
                ELSE IF ~abs /\ is_negative(rhs) THEN -1 ELSE 1
        e == Min(lhs.exponent, rhs.exponent)
        x == StripZeros(lhs.lsu \o Zeros(lhs.exponent - e))
        y == StripZeros(rhs.lsu \o Zeros(rhs.exponent - e))
    IN
    IF result > sigr THEN 1
    ELSE IF result < sigr THEN -1
    ELSE IF result = 0 THEN 0
    ELSE IF is_infinite(lhs) \/ is_infinite(rhs)
    THEN (IF is_infinite(rhs)
          THEN (IF is_infinite(lhs) THEN 0 ELSE -result)
          ELSE result)
    ELSE decUnitCompare(x, y) * result

\* decNaNs: the NaN an operation with a NaN operand returns.  A signaling NaN
\* takes precedence, is quieted and is an invalid operation; a payload longer
\* than the precision loses its leading digits.
decNaNs(set, lhs, rhs) ==
    LET src == IF is_signaling_nan(lhs) THEN lhs
               ELSE IF is_signaling_nan(rhs) THEN rhs
               ELSE IF is_nan(lhs) THEN lhs ELSE rhs
        fit == IF src.digits <= set.digits THEN src.lsu
               ELSE StripZeros(SubSeq(src.lsu, Len(src.lsu) - set.digits + 1,
                                      Len(src.lsu)))
    IN [num |-> [digits |-> Len(fit), exponent |-> 0,
                 bits |-> (src.bits \ {DECSNAN}) \cup {DECNAN}, lsu |-> fit],
        status |-> IF is_signaling_nan(lhs) \/ is_signaling_nan(rhs)
                   THEN {"invalid_operation"} ELSE {}]

\* The number decCompareOp returns for a signum: 0, 1 or -1.
Signum(result) ==
    [digits |-> 1, exponent |-> 0,
     bits |-> IF result < 0 THEN {DECNEG} ELSE {},
     lsu |-> IF result = 0 THEN <<0>> ELSE <<1>>]

\* decNumberCompare: the signum of the numeric comparison, or a NaN when an
\* operand is a NaN.  The result is [num, status].
decNumberCompare(set, lhs, rhs) ==
    IF is_nan(lhs) \/ is_nan(rhs) THEN decNaNs(set, lhs, rhs)
    ELSE [num |-> Signum(decCompare(lhs, rhs, FALSE)), status |-> {}]

\* decNumberCompareTotal: the signum of the total order of IEEE 754: the sign
\* first, then NaNs above the numbers (signaling below quiet, then by
\* payload), then the numeric value, then the exponent; all of it reversed
\* for negative operands.
decNumberCompareTotal(set, lhs, rhs) ==
    LET flip(r) == IF is_negative(lhs) THEN -r ELSE r
        r0 == IF is_negative(lhs) /\ ~is_negative(rhs) THEN -1
              ELSE IF ~is_negative(lhs) /\ is_negative(rhs) THEN 1
              ELSE IF is_nan(lhs) \/ is_nan(rhs)
              THEN flip(IF ~is_nan(lhs) THEN -1
                        ELSE IF ~is_nan(rhs) THEN 1
                        ELSE IF is_signaling_nan(lhs) /\ is_quiet_nan(rhs) THEN -1
                        ELSE IF is_quiet_nan(lhs) /\ is_signaling_nan(rhs) THEN 1
                        ELSE decUnitCompare(lhs.lsu, rhs.lsu))
              ELSE decCompare(lhs, rhs, FALSE)
        r1 == IF r0 = 0 /\ lhs.exponent # rhs.exponent
              THEN flip(IF lhs.exponent < rhs.exponent THEN -1 ELSE 1)
              ELSE r0
    IN [num |-> Signum(r1), status |-> {}]

\* decNumberMax, decNumberMin, decNumberMaxMag, decNumberMinMag (op is
\* "max", "min", "max_abs" or "min_abs").  Two NaNs or a signaling NaN give
\* a NaN; a single quiet NaN is ignored and the other operand chosen; equal
\* values are chosen by sign and exponent.  The chosen operand is rounded
\* to the context.  The result is [num, status].
decCompareOpSelect(set, lhs, rhs, op) ==
    LET isMin == op \in {"min", "min_abs"}
        isMag == op \in {"max_abs", "min_abs"}
        c == decCompare(lhs, rhs, isMag)
        tie == IF is_negative(lhs) # is_negative(rhs)
               THEN (IF is_negative(lhs) THEN -1 ELSE 1)
               ELSE IF is_negative(lhs)
               THEN (IF lhs.exponent < rhs.exponent THEN 1 ELSE -1)
               ELSE (IF lhs.exponent > rhs.exponent THEN 1 ELSE -1)
        r == IF c = 0 THEN tie ELSE c
        choice == IF (IF isMin THEN -r ELSE r) > 0 THEN lhs ELSE rhs
        fitted(d) == IF is_special(d) THEN [num |-> d, status |-> {}]
                     ELSE decFinish(set, d)
    IN
    IF is_signaling_nan(lhs) \/ is_signaling_nan(rhs)
       \/ (is_nan(lhs) /\ is_nan(rhs))
    THEN decNaNs(set, lhs, rhs)
    ELSE IF is_nan(lhs) THEN fitted(rhs)
    ELSE IF is_nan(rhs) THEN fitted(lhs)
    ELSE fitted(choice)

\* decNumberSameQuantum: the number 1 when the operands have the same
\* quantum and 0 otherwise.
decNumberSameQuantum(lhs, rhs) ==
    LET ret == IF is_special(lhs) \/ is_special(rhs)
               THEN \/ is_nan(lhs) /\ is_nan(rhs)
                    \/ is_infinite(lhs) /\ is_infinite(rhs)
               ELSE lhs.exponent = rhs.exponent
    IN [Decimal_default EXCEPT !.lsu = IF ret THEN <<1>> ELSE <<0>>]

\* quantum_matches with the result of its test inverted.
quantum_matches_inverted(lhs, rhs) ==
    LET d == decNumberSameQuantum(lhs, rhs) IN
    IF is_zero(d) THEN [outcome |-> "ok", value |-> TRUE]
    ELSE [outcome |-> "ok", value |-> FALSE]

\* Decimal::quantum_matches.  The result is [outcome, value]; outcome is
\* "panic" when the debug assertion fails.
quantum_matches(lhs, rhs) ==
    LET d == decNumberSameQuantum(lhs, rhs) IN
    IF is_zero(d) THEN [outcome |-> "ok", value |-> FALSE]
    ELSE IF is_special(d) THEN [outcome |-> "panic", value |-> FALSE]
    ELSE [outcome |-> "ok", value |-> TRUE]

\* partial_cmp without its test for a NaN result.
partial_cmp_skips_nan(c, lhs, rhs) ==
    LET r == decNumberCompare(c, lhs, rhs)
        d == r.num
    IN [outcome |-> "ok",
        ord |-> IF is_negative(d) THEN "Less"
                ELSE IF is_zero(d) THEN "Equal" ELSE "Greater",
        cx |-> [c EXCEPT !.status = add_status(c.status, r.status)]]

\* Context::partial_cmp.  The result is [outcome, ord, cx], ord one of
\* "None", "Less", "Equal", "Greater".
partial_cmp(c, lhs, rhs) ==
    LET r == decNumberCompare(c, lhs, rhs)
        d == r.num
        c1 == [c EXCEPT !.status = add_status(c.status, r.status)]
    IN
    IF ~validate_n(N) THEN [outcome |-> "panic", ord |-> "None", cx |-> c]
    ELSE IF is_nan(d) THEN [outcome |-> "ok", ord |-> "None", cx |-> c1]
    ELSE IF is_negative(d) THEN [outcome |-> "ok", ord |-> "Less", cx |-> c1]
    ELSE IF is_zero(d) THEN [outcome |-> "ok", ord |-> "Equal", cx |-> c1]
    ELSE IF is_special(d) THEN [outcome |-> "panic", ord |-> "None", cx |-> c1]
    ELSE [outcome |-> "ok", ord |-> "Greater", cx |-> c1]

\* PartialOrd and PartialEq for Decimal<N>: partial_cmp in a default context.
PartialOrd_partial_cmp(lhs, rhs) == partial_cmp(Context_default(N), lhs, rhs).ord

PartialEq_eq(lhs, rhs) == PartialOrd_partial_cmp(lhs, rhs) = "Equal"

\* total_cmp calling the numeric comparison decNumberCompare instead of
\* decNumberCompareTotal.
total_cmp_numeric(c, lhs, rhs) ==
    LET r == decNumberCompare(c, lhs, rhs)
        d == r.num
        c1 == [c EXCEPT !.status = add_status(c.status, r.status)]
    IN
    IF is_special(d) THEN [outcome |-> "panic", ord |-> "Equal", cx |-> c1]
    ELSE IF is_negative(d) THEN [outcome |-> "ok", ord |-> "Less", cx |-> c1]
    ELSE IF is_zero(d) THEN [outcome |-> "ok", ord |-> "Equal", cx |-> c1]
    ELSE [outcome |-> "ok", ord |-> "Greater", cx |-> c1]

\* Context::total_cmp.  The result is [outcome, ord, cx].
total_cmp(c, lhs, rhs) ==
    LET r == decNumberCompareTotal(c, lhs, rhs)
        d == r.num
        c1 == [c EXCEPT !.status = add_status(c.status, r.status)]
    IN
    IF ~validate_n(N) THEN [outcome |-> "panic", ord |-> "Equal", cx |-> c]
    ELSE IF is_special(d) THEN [outcome |-> "panic", ord |-> "Equal", cx |-> c1]
    ELSE IF is_negative(d) THEN [outcome |-> "ok", ord |-> "Less", cx |-> c1]
    ELSE IF is_zero(d) THEN [outcome |-> "ok", ord |-> "Equal", cx |-> c1]
    ELSE [outcome |-> "ok", ord |-> "Greater", cx |-> c1]

\* Context::max, min, max_abs, min_abs: the result is [num, cx].
Context_select(c, lhs, rhs, op) ==
    LET r == decCompareOpSelect(c, lhs, rhs, op) IN
    [num |-> r.num, cx |-> [c EXCEPT !.status = add_status(c.status, r.status)]]

max(c, lhs, rhs) == Context_select(c, lhs, rhs, "max")

min(c, lhs, rhs) == Context_select(c, lhs, rhs, "min")

max_abs(c, lhs, rhs) == Context_select(c, lhs, rhs, "max_abs")

min_abs(c, lhs, rhs) == Context_select(c, lhs, rhs, "min_abs")

(***************************************************************************)
(* Context::neg and Context::div                                           *)
(***************************************************************************)

\* neg going through decNumberMinus, which rounds to the context and raises
\* its conditions.
Context_neg_as_minus(c, n) ==
    LET r == decNumberPlus(c, IF is_nan(n) \/ AllZero(n.lsu) THEN n ELSE neg(n)) IN
    [num |-> r.num, cx |-> [c EXCEPT !.status = add_status(c.status, r.status)]]

\* Context::neg: decNumberCopyNegate takes no context.  The result is
\* [num, cx].
Context_neg(c, n) == [num |-> neg(n), cx |-> c]

\* The dividend times ten until it is not smaller than the divisor.
RECURSIVE AlignDividend(_, _, _)
AlignDividend(a, b, adjust) ==
    IF a < b THEN AlignDividend(10 * a, b, adjust + 1)
    ELSE [a |-> a, adjust |-> adjust]

\* The divisor times ten until ten times it exceeds the dividend.
RECURSIVE AlignDivisor(_, _, _)
AlignDivisor(a, b, adjust) ==
    IF a >= 10 * b THEN AlignDivisor(a, 10 * b, adjust - 1)
    ELSE [b |-> b, adjust |-> adjust]

\* Long division: one digit of the quotient per step, until the division is
\* exact at or below the ideal exponent or prec digits are produced.
RECURSIVE LongDivide(_, _, _, _, _)
LongDivide(a, b, q, adjust, prec) ==
    LET q1 == Append(q, a \div b)
        r == a % b
    IN IF (r = 0 /\ adjust >= 0) \/ Len(q1) = prec
       THEN [q |-> q1, rem |-> r, adjust |-> adjust]
       ELSE LongDivide(10 * r, b, q1, adjust + 1, prec)

\* decNumberDivide.  The result is [num, status].  The division of a zero
\* by a zero is undefined, an invalid operation.
decNumberDivide(set, lhs, rhs) ==
    LET sign == IF is_negative(lhs) # is_negative(rhs) THEN {DECNEG} ELSE {}
        ideal == lhs.exponent - rhs.exponent
        etiny == set.emin - (set.digits - 1)
        x == AlignDividend(ValueOf(lhs.lsu), ValueOf(rhs.lsu), 0)
        y == AlignDivisor(x.a, ValueOf(rhs.lsu), x.adjust)
        d == LongDivide(x.a, y.b, <<>>, y.adjust, set.digits)
        up == 2 * d.rem >= y.b
        q1 == IF up THEN Increment(d.q) ELSE d.q
        carried == Len(q1) > set.digits
        q2 == IF carried THEN SubSeq(q1, 1, set.digits) ELSE q1
        quotient == [digits |-> Len(q2),
                     exponent |-> ideal - d.adjust + (IF carried THEN 1 ELSE 0),
                     bits |-> sign, lsu |-> q2]
        fin == decFinish(set, quotient)
    IN
    IF is_nan(lhs) \/ is_nan(rhs) THEN decNaNs(set, lhs, rhs)
    ELSE IF is_infinite(lhs)
    THEN (IF is_infinite(rhs)
          THEN [num |-> nan, status |-> {"invalid_operation"}]
          ELSE [num |-> [infinity EXCEPT !.bits = {DECINF} \cup sign],
                status |-> {}])
    ELSE IF is_infinite(rhs)
    THEN [num |-> [zero EXCEPT !.bits = sign, !.exponent = etiny],
          status |-> {"clamped"}]
    ELSE IF ISZERO(rhs)
    THEN (IF ISZERO(lhs)
          THEN [num |-> nan, status |-> {"invalid_operation"}]
          ELSE [num |-> [infinity EXCEPT !.bits = {DECINF} \cup sign],
                status |-> {"division_by_zero"}])
    ELSE IF ISZERO(lhs)
    THEN decFinish(set, [zero EXCEPT !.bits = sign, !.exponent = ideal])
    ELSE [num |-> fin.num,
          status |-> fin.status
              \cup (IF d.rem # 0 THEN {"inexact", "rounded"} ELSE {})]

\* div with its operands exchanged.
div_operands_swapped(c, lhs, rhs) ==
    LET r == decNumberDivide(c, rhs, lhs) IN
    [num |-> r.num, cx |-> [c EXCEPT !.status = add_status(c.status, r.status)]]

\* Context::div.  The result is [num, cx].
div(c, lhs, rhs) ==
    LET r == decNumberDivide(c, lhs, rhs) IN
    [num |-> r.num, cx |-> [c EXCEPT !.status = add_status(c.status, r.status)]]

(***************************************************************************)
(* Operations on a pair of numbers: one call on a context                  *)
(***************************************************************************)

\* The operands: zeros, numbers of equal value and different exponents,
\* numbers longer than a small precision, infinities and NaNs of both kinds
\* with payloads, all with both signs.
OpMagnitudes ==
    {Finite({}, 0, 0), Finite({}, 0, -1), Finite({}, 1, 0), Finite({}, 10, -1),
     Finite({}, 100, -2), Finite({}, 5, 0), Finite({}, 123, 0), Finite({}, 2, 1),
     infinity, nan, [nan EXCEPT !.lsu = <<5>>],
     [nan EXCEPT !.lsu = <<1, 0>>, !.digits = 2],
     [nan EXCEPT !.bits = {DECSNAN}],
     [nan EXCEPT !.bits = {DECSNAN}, !.lsu = <<5>>]}

OpInputs == OpMagnitudes \cup {neg(d) : d \in OpMagnitudes}

\* The contexts the calls are made on: the default one and one of
\* precision 1 that already holds a flag.
PairContexts ==
    {Context_default(N),
     [Context_default(N) EXCEPT !.digits = 1, !.status = {"rounded"}]}

PairCall(op, a, b) ==
    [op |-> op, outcome |-> "ok", a |-> a, b |-> b, res |-> Decimal_default,
     ord |-> "None", value |-> FALSE, before |-> cx]

InitPair ==
    /\ cx \in PairContexts
    /\ \E a \in OpInputs, b \in OpInputs : last = PairCall("none", a, b)

QuantumMatches ==
    /\ last.op = "none"
    /\ LET r == quantum_matches(last.a, last.b) IN
       /\ last' = [PairCall("quantum_matches", last.a, last.b)
                      EXCEPT !.outcome = r.outcome, !.value = r.value]
       /\ UNCHANGED cx

PartialCmp ==
    /\ last.op = "none"
    /\ LET r == partial_cmp(cx, last.a, last.b) IN
       /\ last' = [PairCall("partial_cmp", last.a, last.b)
                      EXCEPT !.outcome = r.outcome, !.ord = r.ord]
       /\ cx' = r.cx

TotalCmp ==
    /\ last.op = "none"
    /\ LET r == total_cmp(cx, last.a, last.b) IN
       /\ last' = [PairCall("total_cmp", last.a, last.b)
                      EXCEPT !.outcome = r.outcome, !.ord = r.ord]
       /\ cx' = r.cx

MaxCall ==
    /\ last.op = "none"
    /\ LET r == max(cx, last.a, last.b) IN
       /\ last' = [PairCall("max", last.a, last.b) EXCEPT !.res = r.num]
       /\ cx' = r.cx

MinCall ==
    /\ last.op = "none"
    /\ LET r == min(cx, last.a, last.b) IN
       /\ last' = [PairCall("min", last.a, last.b) EXCEPT !.res = r.num]
       /\ cx' = r.cx

MaxAbsCall ==
    /\ last.op = "none"
    /\ LET r == max_abs(cx, last.a, last.b) IN
       /\ last' = [PairCall("max_abs", last.a, last.b) EXCEPT !.res = r.num]
       /\ cx' = r.cx

MinAbsCall ==
    /\ last.op = "none"
    /\ LET r == min_abs(cx, last.a, last.b) IN
       /\ last' = [PairCall("min_abs", last.a, last.b) EXCEPT !.res = r.num]
       /\ cx' = r.cx

\* neg(a), and neg again on its result.
NegCall ==
    /\ last.op \in {"none", "neg"}
    /\ LET n == IF last.op = "none" THEN last.a ELSE last.res
           r == Context_neg(cx, n)
       IN /\ last' = [PairCall(IF last.op = "none" THEN "neg" ELSE "neg_neg",
                               last.a, last.a) EXCEPT !.res = r.num]
          /\ cx' = r.cx

DivCall ==
    /\ last.op = "none"
    /\ LET r == div(cx, last.a, last.b) IN
       /\ last' = [PairCall("div", last.a, last.b) EXCEPT !.res = r.num]
       /\ cx' = r.cx

NextPair ==
    \/ QuantumMatches
    \/ PartialCmp
    \/ TotalCmp
    \/ MaxCall
    \/ MinCall
    \/ MaxAbsCall
    \/ MinAbsCall
    \/ NegCall
    \/ DivCall

SpecPair == InitPair /\ [][NextPair]_vars

(***************************************************************************)
(* Properties of the operations on a pair                                  *)
(***************************************************************************)

BothInfinite(a, b) == is_infinite(a) /\ is_infinite(b)

BothNaN(a, b) == is_nan(a) /\ is_nan(b)

RECURSIVE TenTo(_)
TenTo(k) == IF k <= 0 THEN 1 ELSE 10 * TenTo(k - 1)

\* The value of a number that is not a NaN, in units of 10^-2 (the operands
\* have exponents of -2 and more); an infinity lies beyond every operand.
HundredthsOf(d) ==
    LET mag == IF is_infinite(d) THEN 1000000
               ELSE ValueOf(d.lsu) * TenTo(d.exponent + 2)
    IN IF is_negative(d) THEN -mag ELSE mag

NumericOrder(a, b) ==
    IF HundredthsOf(a) < HundredthsOf(b) THEN "Less"
    ELSE IF HundredthsOf(a) = HundredthsOf(b) THEN "Equal" ELSE "Greater"

\* C12: partial_cmp returns None exactly when an operand is a NaN; otherwise
\* it returns the order of the numeric values, whatever the exponents; the
\* comparison of the PartialOrd and PartialEq traits does the same.
C12_PartialCmp ==
    last.op = "partial_cmp"
    => /\ last.outcome = "ok"
       /\ last.ord = "None" <=> (is_nan(last.a) \/ is_nan(last.b))
       /\ ~(is_nan(last.a) \/ is_nan(last.b))
          => /\ last.ord = NumericOrder(last.a, last.b)
             /\ PartialOrd_partial_cmp(last.a, last.b) = last.ord
             /\ PartialEq_eq(last.a, last.b) <=> (last.ord = "Equal")

\* 1.0 and 1.00 compare Equal.
C12_Witness ==
    /\ last.op = "partial_cmp" /\ last.ord = "Equal"
    /\ last.a = Finite({}, 10, -1) /\ last.b = Finite({}, 100, -2)

\* C14: neg inverts the sign bit and nothing else of the number, also when it
\* has more digits than the precision of the context; the status is
\* unchanged; neg of the result is the number again.
C14_NegIsQuiet ==
    /\ last.op = "neg"
       => /\ last.res.digits = last.a.digits
          /\ last.res.exponent = last.a.exponent
          /\ last.res.lsu = last.a.lsu
          /\ last.res.bits \ {DECNEG} = last.a.bits \ {DECNEG}
          /\ is_negative(last.res) # is_negative(last.a)
          /\ cx = last.before
    /\ last.op = "neg_neg" => (last.res = last.a /\ cx = last.before)

\* neg twice of a number of three digits on a context of precision 1.
C14_Witness ==
    /\ last.op = "neg_neg" /\ last.a.digits = 3 /\ is_finite(last.a)
    /\ cx_precision(cx) = 1 /\ last.res = last.a

\* C19: max stores in lhs the operand total_cmp ranks greater and min the
\* one it ranks smaller, for every pair of operands, NaNs included.
C19_SelectByTotalOrder ==
    LET byOrder == total_cmp(last.before, last.a, last.b).ord IN
    /\ last.op = "max" => last.res = IF byOrder = "Less" THEN last.b ELSE last.a
    /\ last.op = "min" => last.res = IF byOrder = "Greater" THEN last.b ELSE last.a

\* C20: div by a zero returns normally: a finite non-zero dividend gives an
\* infinity with the sign of the quotient and sets division_by_zero; a zero
\* dividend gives a NaN and sets invalid_operation.
C20_DivisionByZero ==
    (last.op = "div" /\ is_finite(last.a) /\ ISZERO(last.b))
    => /\ last.outcome = "ok"
       /\ ~ISZERO(last.a)
          => /\ is_infinite(last.res)
             /\ is_negative(last.res) = (is_negative(last.a) # is_negative(last.b))
             /\ "division_by_zero" \in cx.status
       /\ ISZERO(last.a)
          => /\ is_nan(last.res)
             /\ "invalid_operation" \in cx.status

\* 1 / 0 is the positive infinity, with division_by_zero set.
C20_Witness ==
    /\ last.op = "div"
    /\ last.a = Finite({}, 1, 0) /\ last.b = Finite({}, 0, 0)
    /\ last.res = infinity /\ "division_by_zero" \in cx.status

(***************************************************************************)
(* total_cmp over three numbers                                            *)
(***************************************************************************)

\* The operands of the triples: zeros and numbers of equal value with
\* different exponents, infinities and NaNs of both kinds, with both signs.
TripleMagnitudes ==
    {Finite({}, 0, 0), Finite({}, 0, -1), Finite({}, 10, -1), Finite({}, 100, -2),
     infinity, nan, [nan EXCEPT !.lsu = <<5>>], [nan EXCEPT !.bits = {DECSNAN}]}

TripleInputs == TripleMagnitudes \cup {neg(d) : d \in TripleMagnitudes}

InitTriple ==
    /\ cx = Context_default(N)
    /\ \E a \in TripleInputs, b \in TripleInputs, c \in TripleInputs :
          last = [op |-> "none", outcome |-> "ok", a |-> a, b |-> b, c |-> c,
                  calls |-> 0,
                  aa |-> "Equal", ab |-> "Equal", ba |-> "Equal",
                  bc |-> "Equal", ac |-> "Equal"]

\* total_cmp called on (a, a), (a, b), (b, a), (b, c) and (a, c), one call
\* after the other on the same context; op is "total_cmp" once the five
\* calls are made.
TotalCmpTriple ==
    /\ last.calls < 5
    /\ LET k == last.calls + 1
           lhs == IF k \in {1, 2, 5} THEN last.a ELSE last.b
           rhs == CASE k = 1 -> last.a
                    [] k = 2 -> last.b
                    [] k = 3 -> last.a
                    [] OTHER -> last.c
           r == total_cmp(cx, lhs, rhs)
       IN /\ last' = [last EXCEPT
                         !.calls = k,
                         !.op = IF k = 5 THEN "total_cmp" ELSE "none",
                         !.outcome = IF r.outcome = "panic" THEN "panic" ELSE @,
                         !.aa = IF k = 1 THEN r.ord ELSE @,
                         !.ab = IF k = 2 THEN r.ord ELSE @,
                         !.ba = IF k = 3 THEN r.ord ELSE @,
                         !.bc = IF k = 4 THEN r.ord ELSE @,
                         !.ac = IF k = 5 THEN r.ord ELSE @]
          /\ cx' = r.cx

NextTriple == TotalCmpTriple

SpecTriple == InitTriple /\ [][NextTriple]_vars

Reverse(ord) ==
    IF ord = "Less" THEN "Greater" ELSE IF ord = "Greater" THEN "Less" ELSE ord

\* C13: total_cmp(a, a) is Equal for every a, NaNs included; total_cmp(a, b)
\* is the reverse of total_cmp(b, a); and the order is transitive over
\* every a, b, c.
C13_TotalOrder ==
    last.op = "total_cmp"
    => /\ last.outcome = "ok"
       /\ last.aa = "Equal"
       /\ last.ab = Reverse(last.ba)
       /\ (last.ab # "Greater" /\ last.bc # "Greater") => last.ac # "Greater"
       /\ (last.ab = "Less" /\ last.bc # "Greater") => last.ac = "Less"
       /\ (last.ab # "Greater" /\ last.bc = "Less") => last.ac = "Less"

\* A negative quiet NaN below 1.00 below 1.0, and below 1.0 itself.
C13_Witness ==
    /\ last.op = "total_cmp"
    /\ is_quiet_nan(last.a) /\ is_negative(last.a)
    /\ last.b = Finite({}, 100, -2) /\ last.c = Finite({}, 10, -1)
    /\ last.ab = "Less" /\ last.bc = "Less" /\ last.ac = "Less"
    /\ last.aa = "Equal"

(***************************************************************************)
(* Deserialization: DecimalVisitor                                         *)
(***************************************************************************)

\* The entries of a serialized map have at most MaxFields keys.
MaxFields == 5

\* The names of the fields of a serialized Decimal, in their order.
FIELDS == <<"digits", "exponent", "bits", "lsu">>

\* A failed deserialization: the kind of the de::Error and its argument.
DeError(kind, what) == [outcome |-> "err", kind |-> kind, what |-> what]

DeOk == [outcome |-> "ok", kind |-> "none", what |-> "none"]

\* The field name visit_map reports for a key that appears twice.
DuplicateName(key) ==
    CASE key = "digits" -> "digits"
      [] key = "exponent" -> "exponent"
      [] key = "bits" -> "exponent"
      [] key = "lsu" -> "exponent"

\* The loop of visit_map over the entries: the keys seen and the length of
\* the lsu value, or the error of the first key seen twice.
RECURSIVE visit_map_loop(_, _, _)
visit_map_loop(entries, seen, lsu_len) ==
    IF entries = <<>>
    THEN [error |-> DeOk, seen |-> seen, lsu_len |-> lsu_len]
    ELSE LET e == Head(entries) IN
         IF e.key \in seen
         THEN [error |-> DeError("duplicate_field", DuplicateName(e.key)),
               seen |-> seen, lsu_len |-> lsu_len]
         ELSE visit_map_loop(Tail(entries), seen \cup {e.key},
                             IF e.key = "lsu" THEN e.len ELSE lsu_len)

\* visit_map whose loop overwrites a field that appears again.
RECURSIVE visit_map_last_wins(_, _)
visit_map_last_wins(n, entries) ==
    IF entries # <<>> /\ \E i \in 2..Len(entries) : entries[i].key = entries[1].key
    THEN visit_map_last_wins(n, Tail(entries))
    ELSE LET r == visit_map_loop(entries, {}, 0)
             missing == {i \in 1..4 : FIELDS[i] \notin r.seen}
         IN IF r.error.outcome = "err" THEN r.error
            ELSE IF missing # {}
            THEN DeError("missing_field",
                         FIELDS[CHOOSE i \in missing : \A j \in missing : i <= j])
            ELSE IF r.lsu_len # n THEN DeError("invalid_value", "lsu")
            ELSE DeOk

\* DecimalVisitor::visit_map for Decimal<n>: entries is the sequence of the
\* [key, len] of the map, len the length of the value of an lsu key.
visit_map(n, entries) ==
    LET r == visit_map_loop(entries, {}, 0)
        missing == {i \in 1..4 : FIELDS[i] \notin r.seen}
    IN IF r.error.outcome = "err" THEN r.error
       ELSE IF missing # {}
       THEN DeError("missing_field",
                    FIELDS[CHOOSE i \in missing : \A j \in missing : i <= j])
       ELSE IF r.lsu_len # n THEN DeError("invalid_value", "lsu")
       ELSE DeOk

\* DecimalVisitor::visit_seq for Decimal<n>: count elements are present, the
\* fourth one is an array of lsu_len units.
visit_seq(n, count, lsu_len) ==
    IF count < 4 THEN DeError("invalid_length", FIELDS[count + 1])
    ELSE IF lsu_len # n THEN DeError("invalid_value", "lsu")
    ELSE DeOk

\* The storage capacities: illegal ones on both sides of the range and N.
Capacities == {0, 3, MIN_N - 1, N, MAX_N + 1}

\* The entries a map of a Decimal<n> can hold: the three scalar fields and
\* an lsu field with an array of n - 1, n or n + 1 units.
MapEntries(n) ==
    {[key |-> k, len |-> 0] : k \in {"digits", "exponent", "bits"}}
    \cup {[key |-> "lsu", len |-> l] : l \in {n - 1, n, n + 1}}

DeCall(op, n, entries, count, lsu_len) ==
    [op |-> op, outcome |-> "ok", kind |-> "none", what |-> "none", n |-> n,
     entries |-> entries, count |-> count, lsu_len |-> lsu_len]

\* A map or a sequence to deserialize into a Decimal<N> or a Decimal<3>.
InitDe ==
    /\ cx = Context_default(N)
    /\ \E n \in {3, N} :
          \/ \E k \in 0..MaxFields : \E entries \in [1..k -> MapEntries(n)] :
                last = DeCall("none", n, entries, 0, 0)
          \/ \E count \in 0..MaxFields, l \in {n - 1, n, n + 1} :
                last = DeCall("none_seq", n, <<>>, count, l)

VisitMap ==
    /\ last.op = "none"
    /\ LET r == visit_map(last.n, last.entries) IN
       last' = [last EXCEPT !.op = "visit_map", !.outcome = r.outcome,
                            !.kind = r.kind, !.what = r.what]
    /\ UNCHANGED cx

VisitSeq ==
    /\ last.op = "none_seq"
    /\ LET r == visit_seq(last.n, last.count, last.lsu_len) IN
       last' = [last EXCEPT !.op = "visit_seq", !.outcome = r.outcome,
                            !.kind = r.kind, !.what = r.what]
    /\ UNCHANGED cx

NextDe == VisitMap \/ VisitSeq

SpecDe == InitDe /\ [][NextDe]_vars

KeysOf(entries) == {entries[i].key : i \in 1..Len(entries)}

HasDuplicate(entries) ==
    \E i, j \in 1..Len(entries) : i # j /\ entries[i].key = entries[j].key

\* C16: deserialization returns an error when the length of the lsu array is
\* not N, when a field appears more than once, or when a field is missing,
\* in the map form and in the sequence form.
C16_DeserializeRejects ==
    /\ last.op = "visit_map"
       => LET lsu == {i \in 1..Len(last.entries) : last.entries[i].key = "lsu"} IN
          ((\/ HasDuplicate(last.entries)
            \/ KeysOf(last.entries) # {"digits", "exponent", "bits", "lsu"}
            \/ \E i \in lsu : last.entries[i].len # last.n)
           => last.outcome = "err")
    /\ last.op = "visit_seq"
       => ((last.count < 4 \/ last.lsu_len # last.n) => last.outcome = "err")

\* A map with the four fields and bits a second time is rejected.
C16_Witness ==
    /\ last.op = "visit_map" /\ last.outcome = "err"
    /\ Len(last.entries) = 5
    /\ KeysOf(last.entries) = {"digits", "exponent", "bits", "lsu"}
    /\ last.entries[5].key = "bits"
    /\ \A i \in 1..5 : last.entries[i].key = "lsu" => last.entries[i].len = last.n

(***************************************************************************)
(* The paths that produce a Decimal<n>, for any capacity n                 *)
(***************************************************************************)

\* The result of a path that produces a number: [outcome, num].
Produced(d) == [outcome |-> "ok", num |-> d]

Panicked == [outcome |-> "panic", num |-> Decimal_default]

\* Default for Decimal<n>: validate_n, then decNumberZero.
Decimal_default_of(n) ==
    IF ~validate_n(n) THEN Panicked ELSE Produced(Decimal_default)

\* Decimal::<n>::zero, infinity and nan start from Decimal::default().
zero_of(n) == Decimal_default_of(n)

infinity_of(n) ==
    LET d == Decimal_default_of(n) IN
    IF d.outcome = "panic" THEN d ELSE Produced([d.num EXCEPT !.bits = {DECINF}])

nan_of(n) ==
    LET d == Decimal_default_of(n) IN
    IF d.outcome = "panic" THEN d ELSE Produced([d.num EXCEPT !.bits = {DECNAN}])

\* From<i32> and From<u32> for Decimal<n>.
From_i32_of(n, v) == IF ~validate_n(n) THEN Panicked ELSE Produced(From_i32(v))

From_u32_of(n, v) == IF ~validate_n(n) THEN Panicked ELSE Produced(From_i32(v))

\* From<Decimal32>, From<Decimal64>, From<Decimal128> for Decimal<n>: x is
\* the number the fixed-width value holds.
From_fixed_of(n, x) == IF ~validate_n(n) THEN Panicked ELSE Produced(x)

\* Context::<Decimal<n>>::parse.
parse_of(n, c, s) ==
    IF ~validate_n(n) THEN Panicked
    ELSE LET r == parse(c, s) IN [outcome |-> r.outcome, num |-> r.num]

\* Context::<Decimal<n>>::to_width: every return path builds its result from
\* Decimal::<n>::default() or Decimal::<n>::infinity().
to_width_of(n, c, m) ==
    IF ~validate_n(n) THEN Panicked
    ELSE LET r == to_width(c, m) IN [outcome |-> r.outcome, num |-> r.n]

\* Deserialize for Decimal<n> from a map and from a sequence that hold the
\* four fields, the lsu array with lsu_len units.
deserialize_map(n, lsu_len) ==
    LET r == visit_map(n, <<[key |-> "digits", len |-> 0],
                            [key |-> "exponent", len |-> 0],
                            [key |-> "bits", len |-> 0],
                            [key |-> "lsu", len |-> lsu_len]>>)
    IN [outcome |-> r.outcome, num |-> Decimal_default]

deserialize_seq(n, lsu_len) ==
    LET r == visit_seq(n, 4, lsu_len) IN
    [outcome |-> r.outcome, num |-> Decimal_default]

\* The largest capacity a context can be built for: 3n must fit an i32.
MaxContextN == I32_MAX \div DECDPUN

ProducerCall(op, n, v, text, m, lsu_len) ==
    [op |-> op, outcome |-> "ok", n |-> n, v |-> v, text |-> text, m |-> m,
     lsu_len |-> lsu_len, res |-> Decimal_default]

InitCapacity ==
    /\ cx = Context_default(N)
    /\ \E n \in Capacities, v \in {0, 1, 123}, text \in {<<"1">>, <<"1", "x">>},
          m \in {Finite({}, 1, 0), infinity}, l \in {0, 1} :
          last = ProducerCall("none", n, v, text, m, n + l)

Produce(op, r) ==
    /\ last.op = "none"
    /\ last' = [last EXCEPT !.op = op, !.outcome = r.outcome, !.res = r.num]
    /\ UNCHANGED cx

ZeroCall == Produce("zero", zero_of(last.n))

InfinityCall == Produce("infinity", infinity_of(last.n))

NanCall == Produce("nan", nan_of(last.n))

DefaultCall == Produce("default", Decimal_default_of(last.n))

FromI32Call == Produce("from_i32", From_i32_of(last.n, last.v))

FromU32Call == Produce("from_u32", From_u32_of(last.n, last.v))

FromFixedCall == Produce("from_fixed", From_fixed_of(last.n, last.m))

ParseCall ==
    /\ last.n <= MaxContextN
    /\ Produce("parse", parse_of(last.n, Context_default(last.n), last.text))

ToWidthCall ==
    /\ last.n <= MaxContextN
    /\ Produce("to_width", to_width_of(last.n, Context_default(last.n), last.m))

DeserializeMap == Produce("deserialize_map", deserialize_map(last.n, last.lsu_len))

DeserializeSeq == Produce("deserialize_seq", deserialize_seq(last.n, last.lsu_len))

NextCapacity ==
    \/ ZeroCall
    \/ InfinityCall
    \/ NanCall
    \/ DefaultCall
    \/ FromI32Call
    \/ FromU32Call
    \/ FromFixedCall
    \/ ParseCall
    \/ ToWidthCall
    \/ DeserializeMap
    \/ DeserializeSeq

SpecCapacity == InitCapacity /\ [][NextCapacity]_vars

\* C15: no path that produces a Decimal<n> returns a value when n is outside
\* [12, 999999999]: zero, infinity, nan, default, the conversions, parse and
\* to_width panic, and so does deserialization.
C15_InvalidCapacityIsFatal ==
    (last.op # "none" /\ (last.n < 12 \/ last.n > 999999999))
    => last.outcome # "ok"

(***************************************************************************)
(* Sums and products                                                       *)
(***************************************************************************)

\* The coefficient of a finite number as a signed integer scaled to the
\* exponent e (e is not above the exponent of the number).
ScaledTo(d, e) ==
    LET v == ValueOf(d.lsu) * TenTo(d.exponent - e) IN
    IF is_negative(d) THEN -v ELSE v

\* decNumberAdd.  The result is [num, status].  The exact sum has the smaller
\* of the exponents; a zero sum is negative only when both operands are.
decNumberAdd(set, lhs, rhs) ==
    LET e == Min(lhs.exponent, rhs.exponent)
        v == ScaledTo(lhs, e) + ScaledTo(rhs, e)
        sign == IF v < 0 \/ (v = 0 /\ is_negative(lhs) /\ is_negative(rhs))
                THEN {DECNEG} ELSE {}
    IN
    IF is_nan(lhs) \/ is_nan(rhs) THEN decNaNs(set, lhs, rhs)
    ELSE IF is_infinite(lhs) \/ is_infinite(rhs)
    THEN (IF BothInfinite(lhs, rhs) /\ is_negative(lhs) # is_negative(rhs)
          THEN [num |-> nan, status |-> {"invalid_operation"}]
          ELSE [num |-> IF is_infinite(lhs) THEN lhs ELSE rhs, status |-> {}])
    ELSE decFinish(set, [digits |-> NumDigits(Abs(v)), exponent |-> e,
                         bits |-> sign, lsu |-> DigitsOf(Abs(v))])

\* decNumberMultiply.  The result is [num, status].
decNumberMultiply(set, lhs, rhs) ==
    LET sign == IF is_negative(lhs) # is_negative(rhs) THEN {DECNEG} ELSE {}
        v == ValueOf(lhs.lsu) * ValueOf(rhs.lsu)
    IN
    IF is_nan(lhs) \/ is_nan(rhs) THEN decNaNs(set, lhs, rhs)
    ELSE IF is_infinite(lhs) \/ is_infinite(rhs)
    THEN (IF ISZERO(lhs) \/ ISZERO(rhs)
          THEN [num |-> nan, status |-> {"invalid_operation"}]
          ELSE [num |-> [infinity EXCEPT !.bits = {DECINF} \cup sign],
                status |-> {}])
    ELSE decFinish(set, [digits |-> NumDigits(v),
                         exponent |-> lhs.exponent + rhs.exponent,
                         bits |-> sign, lsu |-> DigitsOf(v)])

\* Context::add and Context::mul.  The result is [num, cx].
add(c, lhs, rhs) ==
    LET r == decNumberAdd(c, lhs, rhs) IN
    [num |-> r.num, cx |-> [c EXCEPT !.status = add_status(c.status, r.status)]]

mul(c, lhs, rhs) ==
    LET r == decNumberMultiply(c, lhs, rhs) IN
    [num |-> r.num, cx |-> [c EXCEPT !.status = add_status(c.status, r.status)]]

\* Context::sum: the fold of add over the items, from zero.  The result is
\* [num, cx].
RECURSIVE sum_fold(_, _, _)
sum_fold(c, acc, items) ==
    IF items = <<>> THEN [num |-> acc, cx |-> c]
    ELSE LET r == add(c, acc, Head(items)) IN sum_fold(r.cx, r.num, Tail(items))

sum(c, items) == sum_fold(c, zero, items)

\* Context::product: the fold of mul over the items, from 1.
RECURSIVE product_fold(_, _, _)
product_fold(c, acc, items) ==
    IF items = <<>> THEN [num |-> acc, cx |-> c]
    ELSE LET r == mul(c, acc, Head(items)) IN product_fold(r.cx, r.num, Tail(items))

product(c, items) == product_fold(c, From_i32(1), items)

\* Sum<&Decimal<N>> and Product<&Decimal<N>> for Decimal<N>: Context::sum and
\* Context::product on a fresh default context.
Sum_ref(items) == sum(Context_default(N), items).num

Product_ref(items) == product(Context_default(N), items).num

\* The iterators hold at most MaxItems numbers.
MaxItems == 3

\* The recursion of a call is followed to a depth of MaxDepth frames; a call
\* that goes deeper has exhausted its stack.
MaxDepth == 3

SumItems ==
    {Finite({}, 0, 0), Finite({}, 1, 0), Finite({}, 2, 0), Finite({}, 15, -1),
     Finite({DECNEG}, 3, 0), Finite({}, 5, 1)}

IterCall(op, items) ==
    [op |-> op, outcome |-> "ok", items |-> items, depth |-> 0,
     res |-> Decimal_default]

InitIter ==
    /\ cx = Context_default(N)
    /\ \E k \in 0..MaxItems : \E items \in [1..k -> SumItems] :
          last = IterCall("none", items)

\* Sum<Decimal<N>>::sum(iter) and Product<Decimal<N>>::product(iter) are
\* entered: their body is iter.map(|x| x).sum() (.product()), the sum of an
\* iterator of owned Decimal<N> into a Decimal<N>, which is the same method.
SumOwned ==
    /\ last.op = "none"
    /\ last' = [last EXCEPT !.op = "Sum_owned", !.outcome = "running", !.depth = 1]
    /\ UNCHANGED cx

ProductOwned ==
    /\ last.op = "none"
    /\ last' = [last EXCEPT !.op = "Product_owned", !.outcome = "running",
                            !.depth = 1]
    /\ UNCHANGED cx

\* The body of the running method calls the method again, on the mapped
\* iterator; no path of the body returns without that call.
OwnedRecurse ==
    /\ last.op \in {"Sum_owned", "Product_owned"}
    /\ last.outcome = "running"
    /\ last' = IF last.depth < MaxDepth
               THEN [last EXCEPT !.depth = last.depth + 1]
               ELSE [last EXCEPT !.outcome = "stack_overflow"]
    /\ UNCHANGED cx

SumRef ==
    /\ last.op = "none"
    /\ last' = [last EXCEPT !.op = "Sum_ref", !.res = Sum_ref(last.items)]
    /\ UNCHANGED cx

ProductRef ==
    /\ last.op = "none"
    /\ last' = [last EXCEPT !.op = "Product_ref", !.res = Product_ref(last.items)]
    /\ UNCHANGED cx

NextIter ==
    \/ SumOwned
    \/ ProductOwned
    \/ OwnedRecurse
    \/ SumRef
    \/ ProductRef

SpecIter == InitIter /\ [][NextIter]_vars

\* C17: a sum or a product of an iterator of owned numbers through the Sum
\* and Product implementations ends by returning, and returns what
\* Context::sum and Context::product return on a fresh default context.
C17_SumAndProductReturn ==
    (last.op \in {"Sum_owned", "Sum_ref", "Product_owned", "Product_ref"}
        /\ last.outcome # "running")
    => /\ last.outcome = "ok"
       /\ last.op \in {"Sum_owned", "Sum_ref"}
          => last.res = sum(Context_default(N), last.items).num
       /\ last.op \in {"Product_owned", "Product_ref"}
          => last.res = product(Context_default(N), last.items).num

(***************************************************************************)
(* The field a duplicate-field error names                                 *)
(***************************************************************************)

\* The number of entries of the map that hold the key.
Occurrences(entries, key) ==
    Cardinality({i \in 1..Len(entries) : entries[i].key = key})

\* C25: when the map form repeats a field, the duplicate-field error of
\* visit_map names a field that the map holds more than once, whichever of
\* digits, exponent, bits and lsu it is.
C25_DuplicateNamesRepeatedField ==
    (last.op = "visit_map" /\ last.kind = "duplicate_field")
    => Occurrences(last.entries, last.what) >= 2

(***************************************************************************)
(* Conversions from i64, u64, i128 and u128                                *)
(***************************************************************************)

\* The digits of i64::MAX.
I64_MAX ==
    <<9, 2, 2, 3, 3, 7, 2, 0, 3, 6, 8, 5, 4, 7, 7, 5, 8, 0, 7>>

\* The digits of the magnitude of i64::MIN.
I64_MIN_MAGNITUDE ==
    <<9, 2, 2, 3, 3, 7, 2, 0, 3, 6, 8, 5, 4, 7, 7, 5, 8, 0, 8>>

\* The digits of u64::MAX.
U64_MAX ==
    <<1, 8, 4, 4, 6, 7, 4, 4, 0, 7, 3, 7, 0, 9, 5, 5, 1, 6, 1, 5>>

\* The digits of i128::MAX.
I128_MAX ==
    <<1, 7, 0, 1, 4, 1, 1, 8, 3, 4, 6, 0, 4, 6, 9, 2, 3, 1, 7, 3, 1, 6, 8,
      7, 3, 0, 3, 7, 1, 5, 8, 8, 4, 1, 0, 5, 7, 2, 7>>

\* The digits of the magnitude of i128::MIN.
I128_MIN_MAGNITUDE ==
    <<1, 7, 0, 1, 4, 1, 1, 8, 3, 4, 6, 0, 4, 6, 9, 2, 3, 1, 7, 3, 1, 6, 8,
      7, 3, 0, 3, 7, 1, 5, 8, 8, 4, 1, 0, 5, 7, 2, 8>>

\* The digits of u128::MAX.
U128_MAX ==
    <<3, 4, 0, 2, 8, 2, 3, 6, 6, 9, 2, 0, 9, 3, 8, 4, 6, 3, 4, 6, 3, 3, 7,
      4, 6, 0, 7, 4, 3, 1, 7, 6, 8, 2, 1, 1, 4, 5, 5>>

\* decnum_from_signed_int! and decnum_from_unsigned_int! on the context c:
\* the integer of the given sign and digits, held to the precision of the
\* context.  The result is [num, cx].
decnum_from_int(c, sign, digits) ==
    LET r == decFinish(c, [digits |-> Len(digits), exponent |-> 0,
                           bits |-> sign, lsu |-> digits])
    IN [num |-> r.num, cx |-> [c EXCEPT !.status = add_status(c.status, r.status)]]

\* From<i64>, From<u64>, From<i128>, From<u128> for Decimal<n>: the macro on
\* a fresh default context, then debug_assert!(!cx.status().any()), which
\* is compiled only when debug assertions are on.  The result is
\* [outcome, num, status]: status is that of the internal context.
From_int(n, sign, digits, debug_assertions) ==
    LET r == decnum_from_int(Context_default(n), sign, digits) IN
    [outcome |-> IF debug_assertions /\ r.cx.status # {} THEN "panic" ELSE "ok",
     num |-> r.num, status |-> r.cx.status]

\* The integers converted: zero, one, the 36 nines and the extremes of the
\* type.
Nines(k) == [i \in 1..k |-> 9]

SmallMagnitudes == {<<0>>, <<1>>, <<4, 2>>, Nines(18)}

I64Inputs ==
    {[sign |-> sg, digits |-> d] : sg \in Signs, d \in SmallMagnitudes \cup {I64_MAX}}
    \cup {[sign |-> {DECNEG}, digits |-> I64_MIN_MAGNITUDE]}

U64Inputs == {[sign |-> {}, digits |-> d] : d \in SmallMagnitudes \cup {I64_MAX, U64_MAX}}

I128Inputs ==
    I64Inputs
    \cup {[sign |-> sg, digits |-> d] : sg \in Signs, d \in {Nines(36), I128_MAX}}
    \cup {[sign |-> {DECNEG}, digits |-> I128_MIN_MAGNITUDE]}

U128Inputs ==
    U64Inputs \cup {[sign |-> {}, digits |-> d] : d \in {Nines(36), I128_MAX, U128_MAX}}

IntCall(op, n, v, debug_assertions) ==
    [op |-> op, outcome |-> "ok", n |-> n, v |-> v,
     debug_assertions |-> debug_assertions, res |-> Decimal_default,
     status |-> {}]

\* A conversion into the smallest capacity or the next one, in a build with
\* or without debug assertions.
InitInt ==
    /\ cx = Context_default(N)
    /\ \E n \in {MIN_N, MIN_N + 1}, v \in I128Inputs \cup U128Inputs, b \in BOOLEAN :
          last = IntCall("none", n, v, b)

FromInt(op) ==
    /\ last.op = "none"
    /\ LET r == From_int(last.n, last.v.sign, last.v.digits, last.debug_assertions)
       IN last' = [last EXCEPT !.op = op, !.outcome = r.outcome, !.res = r.num,
                               !.status = r.status]
    /\ UNCHANGED cx

FromI64 == last.v \in I64Inputs /\ FromInt("From_i64")

FromU64 == last.v \in U64Inputs /\ FromInt("From_u64")

FromI128 == last.v \in I128Inputs /\ FromInt("From_i128")

FromU128 == last.v \in U128Inputs /\ FromInt("From_u128")

NextInt ==
    \/ FromI64
    \/ FromU64
    \/ FromI128
    \/ FromU128

SpecInt == InitInt /\ [][NextInt]_vars

\* C22: the conversions From<i64>, From<u64>, From<i128> and From<u128> end
\* with no flag set in their internal context, for every value and every
\* valid capacity: their assertion !cx.status().any() never fails.
C22_ConversionsSetNoFlag ==
    last.op \in {"From_i64", "From_u64", "From_i128", "From_u128"}
    => last.status = {} /\ last.outcome # "panic"

(***************************************************************************)
(* to_width on numbers that fit and on special values                      *)
(***************************************************************************)

\* A finite number fits the context: its adjusted exponent is within
\* [min_exponent, max_exponent] and its digits are within the precision.
FitsContext(c, d) ==
    /\ is_finite(d)
    /\ Adjusted(d) >= min_exponent(c) /\ Adjusted(d) <= max_exponent(c)
    /\ d.digits <= cx_precision(c)

\* C23: to_width is the identity on the values that fit: for every finite m
\* that fits the target context, the call returns a number with the sign,
\* digits, exponent and coefficient of m and leaves the status unchanged.
C23_CastIsIdentityOnFitting ==
    [][(last'.op = "to_width" /\ FitsContext(cx, last'.m))
       => /\ last'.outcome = "ok"
          /\ last'.res = last'.m
          /\ cx'.status = cx.status]_vars

\* The kind of a special value.
Kind(d) ==
    IF is_infinite(d) THEN "infinity"
    ELSE IF is_signaling_nan(d) THEN "signaling_nan"
    ELSE IF is_quiet_nan(d) THEN "quiet_nan"
    ELSE "finite"

\* C24: to_width keeps special values: for every infinite m and every NaN m
\* whose payload has no more digits than the target precision, the call
\* returns a value of the same kind and sign and adds no status flag, under
\* every configuration of the context, max_exponent = 0 and
\* min_exponent = 0 included.
C24_CastKeepsSpecials ==
    [][(last'.op = "to_width"
          /\ (is_infinite(last'.m)
              \/ (is_nan(last'.m) /\ last'.m.digits <= cx_precision(cx))))
       => /\ last'.outcome = "ok"
          /\ Kind(last'.res) = Kind(last'.m)
          /\ is_negative(last'.res) = is_negative(last'.m)
          /\ cx'.status = cx.status]_vars

(***************************************************************************)
(* The numbers the public API returns                                      *)
(***************************************************************************)

\* Deserialize for Decimal<n> of the four fields of the number ser, its lsu
\* array given with lsu_len units, in the sequence form or the map form:
\* the fields are stored as they are read.  The result is [outcome, num].
deserialize_value(n, form, ser, lsu_len) ==
    LET r == IF form = "seq" THEN visit_seq(n, 4, lsu_len)
             ELSE visit_map(n, <<[key |-> "digits", len |-> 0],
                                 [key |-> "exponent", len |-> 0],
                                 [key |-> "bits", len |-> 0],
                                 [key |-> "lsu", len |-> lsu_len]>>)
    IN IF r.outcome = "ok" THEN Produced(ser)
       ELSE [outcome |-> "err", num |-> Decimal_default]

\* The serialized numbers: the digits field below, within and above the
\* range of a Decimal<N>, over a zero and a non-zero coefficient.
SerializedInputs ==
    {[digits |-> d, exponent |-> 0, bits |-> b, lsu |-> c] :
        d \in {0, 1, 2, N * DECDPUN, N * DECDPUN + 1},
        b \in {{}, {DECNEG}, {DECINF}},
        c \in {<<0>>, <<1, 2>>}}

\* The Decimal<M> numbers given to to_width: short ones, zeros, special
\* values, and the nines that fill N units, N units and a digit, M units.
WidthInputs ==
    {Finite(sg, c, e) : sg \in Signs, c \in {0, 1, 99}, e \in {-1, 0, 1}}
    \cup {infinity, nan}
    \cup {[digits |-> k, exponent |-> 0, bits |-> {}, lsu |-> Nines(k)] :
            k \in {N * DECDPUN, N * DECDPUN + 1, M * DECDPUN}}

ValueCall(op, outcome, res) == [op |-> op, outcome |-> outcome, res |-> res]

InitValue ==
    /\ cx \in PairContexts
    /\ last = ValueCall("none", "ok", Decimal_default)

ValueZero ==
    /\ last.op = "none"
    /\ LET r == zero_of(N) IN last' = ValueCall("zero", r.outcome, r.num)
    /\ UNCHANGED cx

ValueInfinity ==
    /\ last.op = "none"
    /\ LET r == infinity_of(N) IN last' = ValueCall("infinity", r.outcome, r.num)
    /\ UNCHANGED cx

ValueNan ==
    /\ last.op = "none"
    /\ LET r == nan_of(N) IN last' = ValueCall("nan", r.outcome, r.num)
    /\ UNCHANGED cx

ValueFromI32 ==
    /\ last.op = "none"
    /\ \E v \in {-123, 0, 7} :
          LET r == From_i32_of(N, v) IN
          last' = ValueCall("From_i32", r.outcome, r.num)
    /\ UNCHANGED cx

ValueFromInt ==
    /\ last.op = "none"
    /\ \E v \in I128Inputs \cup U128Inputs, b \in BOOLEAN :
          LET r == From_int(N, v.sign, v.digits, b) IN
          last' = ValueCall("From_int", r.outcome, r.num)
    /\ UNCHANGED cx

ValueToWidth ==
    /\ last.op = "none"
    /\ \E m \in WidthInputs :
          LET r == to_width(cx, m) IN
          /\ last' = ValueCall("to_width", r.outcome, r.n)
          /\ cx' = [cx EXCEPT !.status = r.status]

ValueDeserializeSeq ==
    /\ last.op = "none"
    /\ \E ser \in SerializedInputs, l \in {N, N + 1} :
          LET r == deserialize_value(N, "seq", ser, l) IN
          last' = ValueCall("deserialize_seq", r.outcome, r.num)
    /\ UNCHANGED cx

ValueDeserializeMap ==
    /\ last.op = "none"
    /\ \E ser \in SerializedInputs, l \in {N, N + 1} :
          LET r == deserialize_value(N, "map", ser, l) IN
          last' = ValueCall("deserialize_map", r.outcome, r.num)
    /\ UNCHANGED cx

NextValue ==
    \/ ValueZero
    \/ ValueInfinity
    \/ ValueNan
    \/ ValueFromI32
    \/ ValueFromInt
    \/ ValueToWidth
    \/ ValueDeserializeSeq
    \/ ValueDeserializeMap

SpecValue == InitValue /\ [][NextValue]_vars

\* C21: every Decimal<N> the public API returns (zero, infinity, nan, the
\* integer conversions, to_width, deserialization) has at least one digit
\* and at most 3N, the digits its N units hold, and a number whose
\* coefficient is zero has exactly one digit.
C21_RepresentationInvariant ==
    (last.op # "none" /\ last.outcome = "ok")
    => /\ last.res.digits >= 1
       /\ last.res.digits <= N * DECDPUN
       /\ (is_finite(last.res) /\ AllZero(last.res.lsu)) => last.res.digits = 1

====
